---------------------------- MODULE Spec2Model ----------------------------
(***************************************************************************)
(* A model of the MiM platform agents: the entity resolver                 *)
(* (scripts/agents/entity_resolver.py), the message classifier             *)
(* (scripts/agents/classifier.py) and the gmail-scanner pipeline           *)
(* (scripts/agents/gmail-scanner.py over scripts/agents/agent_base.py).    *)
(*                                                                         *)
(* Strings are sequences of tokens.  A token is a character (" ", "@",     *)
(* "<", ">", ",", a letter) or an indivisible chunk of characters          *)
(* ("fund.com", "https://", "www.").  str.lower, str.strip, str.split and  *)
(* str.startswith are computed on the token sequence.  Python's None, where*)
(* a string may stand, is the one-token sequence NoneStr.                  *)
(***************************************************************************)
EXTENDS Integers, Sequences, FiniteSets, TLC

VARIABLES
    snapshot,           \* the rows of the entity tables the resolver reads
    index,              \* EntityResolver's five lookup tables
    call,               \* the resolver/classifier call made last, with its input
    result,             \* what that call returned
    correspondence,     \* table correspondence
    tasks,              \* table tasks
    activity_log,       \* table activity_log
    agent_runs,         \* table agent_runs: run id -> status and counters
    run,                \* run id -> the local state of gmail-scanner's run()
    llm_calls,          \* number of messages.create calls made so far
    outcome,            \* run id -> how the process ended
    faults,             \* number of external calls that have raised so far
    listed,             \* number of messages the message source has listed so far
    detector            \* the local state of stale-detector's run()

vars == <<snapshot, index, call, result, correspondence, tasks, activity_log,
          agent_runs, run, llm_calls, outcome, faults, listed, detector>>

-----------------------------------------------------------------------------
(* Bounds of the model *)

\* longest investor_contacts junction table
MaxLinks == 2
\* longest soccer_org_contacts junction table
MaxOrgLinks == 1
\* longest list of emails handed to resolve_multiple
MaxBatch == 2
\* most action items in one model response
MaxItems == 2
\* largest integer goal_relevance_score a model response carries
MaxScore == 12
\* number of runs of the gmail scanner
MaxRuns == 2
\* most messages the message source lists, over all runs
MaxMsgs == 2
\* most external calls (persistence, message source) that raise in a behaviour
MaxFaults == 1
\* most rows of the contacts table of a snapshot _load is exercised on
MaxContacts == 2
\* most rows of its contact_emails table
MaxContactEmails == 1
\* most rows of the investors table the stale detector is run on
MaxInvestors == 2
\* latest day of a last_contact_date; the detector runs up to a day later
MaxDay == 2

-----------------------------------------------------------------------------
(* Strings *)

NoneStr == <<"<None>">>

\* str.lower on one token
LowerTok(t) ==
    CASE t = "J" -> "j"
      [] t = "K" -> "k"
      [] t = "X" -> "x"
      [] t = "Fund.com" -> "fund.com"
      [] t = "Example.com" -> "example.com"
      [] t = "HTTPS://" -> "https://"
      [] t = "WWW." -> "www."
      [] OTHER -> t

Lower(s) == [i \in 1..Len(s) |-> LowerTok(s[i])]

Whitespace == {" ", "\n"}

RECURSIVE LStrip(_)
LStrip(s) == IF s # <<>> /\ Head(s) \in Whitespace THEN LStrip(Tail(s)) ELSE s

RECURSIVE RStrip(_)
RStrip(s) ==
    IF s # <<>> /\ s[Len(s)] \in Whitespace
    THEN RStrip(SubSeq(s, 1, Len(s) - 1))
    ELSE s

Strip(s) == RStrip(LStrip(s))

Contains(s, t) == \E i \in 1..Len(s) : s[i] = t

\* index of the first t in s at or after position from, or 0
RECURSIVE FindFrom(_, _, _)
FindFrom(s, t, from) ==
    IF from > Len(s) THEN 0
    ELSE IF s[from] = t THEN from
    ELSE FindFrom(s, t, from + 1)

\* str.split(t): the pieces of s between the occurrences of t
RECURSIVE Split(_, _)
Split(s, t) ==
    LET p == FindFrom(s, t, 1)
    IN  IF p = 0 THEN <<s>>
        ELSE <<SubSeq(s, 1, p - 1)>> \o Split(SubSeq(s, p + 1, Len(s)), t)

\* Python truthiness of an Optional[str]
Truthy(s) == s # NoneStr /\ s # <<>>

-----------------------------------------------------------------------------
(* dict *)

EmptyDict == <<>>

Has(d, k) == k \in DOMAIN d

Put(d, k, v) == [x \in (DOMAIN d) \cup {k} |-> IF x = k THEN v ELSE d[x]]

\* dict.setdefault(k, []).append(v)
AppendTo(d, k, v) == Put(d, k, (IF Has(d, k) THEN d[k] ELSE <<>>) \o <<v>>)

\* dict.get(k, [])
GetList(d, k) == IF Has(d, k) THEN d[k] ELSE <<>>

-----------------------------------------------------------------------------
(* EntityResolver._extract_domain, _extract_email_domain *)

Schemes == {"https://", "http://"}

\* tokens that begin with the characters "http"
StartsWithHttp(s) == s # <<>> /\ s[1] \in Schemes \cup {"httpbin.org"}

IsPathTok(t) == t \in {"/path", "/"}

\* the tokens of s before the first path token
RECURSIVE UntilPath(_)
UntilPath(s) ==
    IF s = <<>> \/ IsPathTok(Head(s)) THEN <<>>
    ELSE <<Head(s)>> \o UntilPath(Tail(s))

\* urlparse(url).hostname or "": the authority after the scheme, if any
HostName(url) ==
    IF url # <<>> /\ url[1] \in Schemes THEN UntilPath(Tail(url)) ELSE <<>>

\* urlparse raises ValueError on an unbalanced bracket in the authority
UrlparseRaises(url) == \E i \in 1..Len(url) : url[i] = "["

ExtractDomain(url) ==
    IF ~Truthy(url) THEN NoneStr
    ELSE IF UrlparseRaises(url) THEN NoneStr
    ELSE LET u  == Strip(Lower(url))
             u2 == IF StartsWithHttp(u) THEN u ELSE <<"https://">> \o u
             h  == HostName(u2)
             d  == IF h # <<>> /\ h[1] = "www." THEN Tail(h) ELSE h
         IN  IF d # <<>> THEN d ELSE NoneStr

free_domains ==
    { <<"gmail.com">>, <<"yahoo.com">>, <<"outlook.com">>, <<"hotmail.com">>,
      <<"aol.com">>, <<"icloud.com">>, <<"me.com">>, <<"live.com">>,
      <<"msn.com">>, <<"protonmail.com">>, <<"mail.com">>, <<"comcast.net">>,
      <<"verizon.net">> }

\* the domain without the free_domains test
ExtractEmailDomainAny(email) ==
    IF ~Contains(email, "@") THEN NoneStr
    ELSE Strip(Lower(Split(email, "@")[2]))

ExtractEmailDomain(email) ==
    IF ~Contains(email, "@") THEN NoneStr
    ELSE LET domain == Strip(Lower(Split(email, "@")[2]))
         IN  IF domain \in free_domains THEN NoneStr ELSE domain

-----------------------------------------------------------------------------
(* EntityResolver._load *)

NoRow == [id |-> "<None>", name |-> "<None>"]

ContactEntry(c) == [id |-> c.id, name |-> c.name, organization |-> c.organization]

\* step 1: contacts with a primary email; a later row overwrites an earlier one
RECURSIVE LoadContacts(_, _)
LoadContacts(rows, d) ==
    IF rows = <<>> THEN d
    ELSE LET c == Head(rows)
         IN  LoadContacts(Tail(rows),
                 IF Truthy(c.email)
                 THEN Put(d, Strip(Lower(c.email)), ContactEntry(c))
                 ELSE d)

\* next((c for c in contacts.data if c["id"] == cid), None)
RECURSIVE FirstContact(_, _)
FirstContact(rows, cid) ==
    IF rows = <<>> THEN NoRow
    ELSE IF Head(rows).id = cid THEN Head(rows)
    ELSE FirstContact(Tail(rows), cid)

\* step 2: contact_emails; an email already in the table is left alone
RECURSIVE LoadContactEmails(_, _, _)
LoadContactEmails(rows, contacts, d) ==
    IF rows = <<>> THEN d
    ELSE LET ce           == Head(rows)
             email_lower  == Strip(Lower(ce.email))
             contact_match == FirstContact(contacts, ce.contact_id)
         IN  LoadContactEmails(Tail(rows), contacts,
                 IF ~Has(d, email_lower) /\ contact_match # NoRow
                 THEN Put(d, email_lower, ContactEntry(contact_match))
                 ELSE d)

\* steps 3 and 4: a junction row whose joined entity is missing is skipped
RECURSIVE LoadLinks(_, _)
LoadLinks(rows, d) ==
    IF rows = <<>> THEN d
    ELSE LET r == Head(rows)
         IN  LoadLinks(Tail(rows),
                 IF r.entity # NoRow
                 THEN AppendTo(d, r.contact_id, [id |-> r.entity.id, name |-> r.entity.name])
                 ELSE d)

\* steps 5 and 6: website -> entity; a later row overwrites an earlier one
RECURSIVE LoadDomains(_, _)
LoadDomains(rows, d) ==
    IF rows = <<>> THEN d
    ELSE LET e      == Head(rows)
             domain == ExtractDomain(e.website)
         IN  LoadDomains(Tail(rows),
                 IF Truthy(domain)
                 THEN Put(d, domain, [id |-> e.id, name |-> e.name])
                 ELSE d)

\* ce["email"].lower() on a row whose email is None raises AttributeError
LoadRaises(snap) ==
    \E i \in 1..Len(snap.contact_emails) : snap.contact_emails[i].email = NoneStr

EmptyIndex ==
    [email_to_contacts    |-> EmptyDict,
     contact_to_investors |-> EmptyDict,
     contact_to_orgs      |-> EmptyDict,
     domain_to_investors  |-> EmptyDict,
     domain_to_orgs       |-> EmptyDict]

Load(snap) ==
    [email_to_contacts    |->
        LoadContactEmails(snap.contact_emails, snap.contacts,
                          LoadContacts(snap.contacts, EmptyDict)),
     contact_to_investors |-> LoadLinks(snap.investor_contacts, EmptyDict),
     contact_to_orgs      |-> LoadLinks(snap.soccer_org_contacts, EmptyDict),
     domain_to_investors  |-> LoadDomains(snap.investors, EmptyDict),
     domain_to_orgs       |-> LoadDomains(snap.soccer_orgs, EmptyDict)]

-----------------------------------------------------------------------------
(* EntityMatch, EntityResolver.resolve, resolve_multiple *)

ConfDirect == 10      \* confidence 1.0, in tenths
ConfJunction == 9     \* confidence 0.9
ConfDomain == 6       \* confidence 0.6

EntityMatch(type, rec, method, conf) ==
    [entity_type |-> type, entity_id |-> rec.id, entity_name |-> rec.name,
     match_method |-> method, confidence |-> conf]

Key(m) == <<m.entity_type, m.entity_id>>

NoMatches == [matches |-> <<>>, seen |-> {}]

\* if key not in seen: seen.add(key); matches.append(m)
AddMatchUnseen(acc, m) ==
    [matches |-> Append(acc.matches, m), seen |-> acc.seen \cup {Key(m)}]

AddMatch(acc, m) ==
    IF Key(m) \notin acc.seen
    THEN [matches |-> Append(acc.matches, m), seen |-> acc.seen \cup {Key(m)}]
    ELSE acc

DirectMatch(contact) == EntityMatch("contacts", contact, "email_direct", ConfDirect)

JunctionMatchAsDirect(type, rec) == EntityMatch(type, rec, "email_junction", ConfDirect)

JunctionMatch(type, rec) == EntityMatch(type, rec, "email_junction", ConfJunction)

DomainMatch(type, rec) == EntityMatch(type, rec, "domain_fallback", ConfDomain)

\* the linked entities taken last to first
RECURSIVE AddLinkedNewestFirst(_, _, _)
AddLinkedNewestFirst(acc, type, linked) ==
    IF linked = <<>> THEN acc
    ELSE AddLinkedNewestFirst(
             AddMatch(acc, JunctionMatch(type, linked[Len(linked)])), type,
             SubSeq(linked, 1, Len(linked) - 1))

\* for rec in linked: add its junction match
RECURSIVE AddLinked(_, _, _)
AddLinked(acc, type, linked) ==
    IF linked = <<>> THEN acc
    ELSE AddLinked(AddMatch(acc, JunctionMatch(type, Head(linked))), type, Tail(linked))

\* step 4's guard as "no linked entity" instead of "no match"
FallbackRunsNoLink(matches) == \A i \in 1..Len(matches) : matches[i].entity_type = "contacts"

\* step 4's guard: if not matches
FallbackRuns(matches) == matches = <<>>

Resolve(idx, raw) ==
    LET email == Strip(Lower(raw))
        found == Has(idx.email_to_contacts, email)
        contact == idx.email_to_contacts[email]
        s1 == IF found THEN AddMatch(NoMatches, DirectMatch(contact)) ELSE NoMatches
        s2 == IF found
              THEN AddLinked(s1, "investors", GetList(idx.contact_to_investors, contact.id))
              ELSE s1
        s3 == IF found
              THEN AddLinked(s2, "soccer_orgs", GetList(idx.contact_to_orgs, contact.id))
              ELSE s2
        domain == ExtractEmailDomain(email)
        s4 == IF FallbackRuns(s3.matches) /\ Truthy(domain)
                 /\ Has(idx.domain_to_investors, domain)
              THEN AddMatch(s3, DomainMatch("investors", idx.domain_to_investors[domain]))
              ELSE s3
        s5 == IF FallbackRuns(s3.matches) /\ Truthy(domain)
                 /\ Has(idx.domain_to_orgs, domain)
              THEN AddMatch(s4, DomainMatch("soccer_orgs", idx.domain_to_orgs[domain]))
              ELSE s4
    IN  s5.matches

\* for match in self.resolve(email): add it unless its key was seen
RECURSIVE AddAll(_, _)
AddAll(acc, ms) ==
    IF ms = <<>> THEN acc ELSE AddAll(AddMatch(acc, Head(ms)), Tail(ms))

RECURSIVE ResolveInto(_, _, _)
ResolveInto(idx, emails, acc) ==
    IF emails = <<>> THEN acc
    ELSE ResolveInto(idx, Tail(emails), AddAll(acc, Resolve(idx, Head(emails))))

\* resolve_multiple with seen reset for every email
RECURSIVE ResolveMultiplePerEmail(_, _)
ResolveMultiplePerEmail(idx, emails) ==
    IF emails = <<>> THEN <<>>
    ELSE Resolve(idx, Head(emails)) \o ResolveMultiplePerEmail(idx, Tail(emails))

ResolveMultiple(idx, emails) == ResolveInto(idx, emails, NoMatches).matches

\* the ids of the contacts the emails are mapped to
ContactsOf(idx, emails) ==
    {idx.email_to_contacts[k].id :
        k \in {Strip(Lower(emails[i])) : i \in 1..Len(emails)}
                 \cap DOMAIN idx.email_to_contacts}

\* a dict with an empty list added for every key it lacks
WithDefaults(d, keys) ==
    [k \in (DOMAIN d) \cup keys |-> IF k \in DOMAIN d THEN d[k] ELSE <<>>]

\* the tables after a resolve that reads the links with setdefault(id, [])
IndexAfterSetdefault(idx, emails) ==
    [idx EXCEPT !.contact_to_investors = WithDefaults(@, ContactsOf(idx, emails)),
                !.contact_to_orgs = WithDefaults(@, ContactsOf(idx, emails))]

\* the tables after resolve or resolve_multiple: both read them with
\* dict.get, which inserts nothing
IndexAfterResolve(idx, emails) == idx

-----------------------------------------------------------------------------
(* The snapshots and the emails the resolver is exercised on *)

SeqsUpTo(S, n) == UNION {[1..k -> S] : k \in 0..n}

Contact1 == [id |-> "c1", name |-> "Jane", email |-> <<"J", "@", "Fund.com">>,
             organization |-> <<"Fund One">>]
Contact2 == [id |-> "c2", name |-> "Kim", email |-> <<"k", "@", "gmail.com">>,
             organization |-> NoneStr]

Investor1 == [id |-> "i1", name |-> "Fund One"]
Investor2 == [id |-> "i2", name |-> "Fund Two"]
Org1 == [id |-> "o1", name |-> "Club"]

InvestorLinkRows ==
    { [contact_id |-> "c1", entity |-> Investor1],
      [contact_id |-> "c1", entity |-> Investor2],
      [contact_id |-> "c2", entity |-> Investor1],
      [contact_id |-> "c1", entity |-> NoRow] }

OrgLinkRows ==
    { [contact_id |-> "c1", entity |-> Org1],
      [contact_id |-> "c2", entity |-> Org1] }

InvestorTables ==
    { <<>>,
      << [id |-> "i1", name |-> "Fund One",
          website |-> <<"HTTPS://", "WWW.", "Fund.com", "/path">>],
         [id |-> "i2", name |-> "Fund Two", website |-> <<"gmail.com">>] >> }

OrgTables ==
    { <<>>,
      << [id |-> "o1", name |-> "Club", website |-> <<"fund.com">>] >> }

ResolveSnapshots ==
    { [contacts            |-> <<Contact1, Contact2>>,
       contact_emails      |-> << [contact_id |-> "c2",
                                   email |-> <<" ", "K", "@", "club.org">>] >>,
       investor_contacts   |-> il,
       soccer_org_contacts |-> ol,
       investors           |-> it,
       soccer_orgs         |-> ot] :
         il \in SeqsUpTo(InvestorLinkRows, MaxLinks),
         ol \in SeqsUpTo(OrgLinkRows, MaxOrgLinks),
         it \in InvestorTables,
         ot \in OrgTables }

EmailJane   == <<" ", "J", "@", "Fund.com", " ">>
EmailKimAlt == <<"k", "@", "club.org">>
EmailFund   == <<"x", "@", "fund.com">>
EmailGmail  == <<"x", "@", "gmail.com">>
EmailNoAt   == <<"x">>
EmailEmpty  == <<>>

Emails == {EmailJane, EmailKimAlt, EmailFund, EmailGmail, EmailNoAt, EmailEmpty}

BatchEmails == {EmailJane, EmailKimAlt, EmailFund}

NoCall == [op |-> "none", emails |-> <<>>]

\* stale-detector's run() has not been called
IdleDetector ==
    [pc |-> "idle", run |-> 0, today |-> 0, rows |-> <<>>, records_processed |-> 0,
     records_updated |-> 0, first |-> <<>>]

\* the tables and runs of the pipeline, untouched
PipelineIdle ==
    /\ detector = IdleDetector
    /\ correspondence = <<>>
    /\ tasks = <<>>
    /\ activity_log = <<>>
    /\ agent_runs = <<>>
    /\ run = <<>>
    /\ llm_calls = 0
    /\ outcome = <<>>
    /\ faults = 0
    /\ listed = 0

pipelineVars ==
    <<correspondence, tasks, activity_log, agent_runs, run, llm_calls, outcome, faults,
      listed>>

\* the state after EntityResolver(sb) returned
InitResolve ==
    /\ snapshot \in ResolveSnapshots
    /\ ~LoadRaises(snapshot)
    /\ index = Load(snapshot)
    /\ call = NoCall
    /\ result = <<>>
    /\ PipelineIdle

CallResolve ==
    /\ call = NoCall
    /\ \E e \in Emails :
        /\ call' = [op |-> "resolve", emails |-> <<e>>]
        /\ result' = Resolve(index, e)
        /\ index' = IndexAfterResolve(index, <<e>>)
        /\ UNCHANGED <<detector, snapshot>>
        /\ UNCHANGED pipelineVars

CallResolveMultiple ==
    /\ call = NoCall
    /\ \E es \in SeqsUpTo(BatchEmails, MaxBatch) :
        /\ call' = [op |-> "resolve_multiple", emails |-> es]
        /\ result' = ResolveMultiple(index, es)
        /\ index' = IndexAfterResolve(index, es)
        /\ UNCHANGED <<detector, snapshot>>
        /\ UNCHANGED pipelineVars

NextResolve == CallResolve \/ CallResolveMultiple

SpecResolve == InitResolve /\ [][NextResolve]_vars

-----------------------------------------------------------------------------
(* Claims about the resolver, under SpecResolve *)

Normalized(e) == Strip(Lower(e))

HasMethod(ms, method) == \E i \in 1..Len(ms) : ms[i].match_method = method

\* C1: the sequence returned by Resolve(e) holds no two matches with the same
\* (entity_type, entity_id), also when a junction table links the same contact
\* to the same investor or organization more than once.
C1_ResolveNoDuplicateIdentity ==
    call.op = "resolve" =>
        \A i, j \in 1..Len(result) : i # j => Key(result[i]) # Key(result[j])

\* a junction table links contact c1 to the same investor twice, and the
\* resolved email is c1's
C1_Witness ==
    /\ call.op = "resolve"
    /\ Len(snapshot.investor_contacts) >= 2
    /\ snapshot.investor_contacts[1] = snapshot.investor_contacts[2]
    /\ snapshot.investor_contacts[1] = [contact_id |-> "c1", entity |-> Investor1]
    /\ call.emails[1] = EmailJane
    /\ \E i \in 1..Len(result) : Key(result[i]) = <<"investors", "i1">>

\* C2: if the normalized email has an entry in the email-to-contact table,
\* Resolve(e) holds no domain_fallback match, whether or not the contact has a
\* linked entity and whether or not the email's domain is mapped.
C2_ContactSuppressesFallback ==
    (call.op = "resolve" /\ Has(index.email_to_contacts, Normalized(call.emails[1])))
        => ~HasMethod(result, "domain_fallback")

\* the contact has no linked investor or organization, its email's domain is
\* mapped to an investor, and the result is the contact alone
C2_Witness ==
    /\ call.op = "resolve"
    /\ call.emails[1] = EmailJane
    /\ ~Has(index.contact_to_investors, "c1")
    /\ ~Has(index.contact_to_orgs, "c1")
    /\ Has(index.domain_to_investors, <<"fund.com">>)
    /\ Len(result) = 1
    /\ result[1].match_method = "email_direct"

\* C3: every match returned by Resolve or ResolveMultiple has confidence 1.0
\* exactly when its method is email_direct, 0.9 exactly when email_junction,
\* 0.6 exactly when domain_fallback; email_direct matches are contacts, the
\* others never are.
C3_ConfidenceByMethod ==
    call.op \in {"resolve", "resolve_multiple"} =>
        \A i \in 1..Len(result) :
            LET m == result[i]
            IN  /\ m.match_method \in {"email_direct", "email_junction", "domain_fallback"}
                /\ (m.confidence = 10) <=> (m.match_method = "email_direct")
                /\ (m.confidence = 9) <=> (m.match_method = "email_junction")
                /\ (m.confidence = 6) <=> (m.match_method = "domain_fallback")
                /\ (m.match_method = "email_direct") <=> (m.entity_type = "contacts")

\* one result holds a match of each method
C3_Witness ==
    /\ call.op = "resolve_multiple"
    /\ HasMethod(result, "email_direct")
    /\ HasMethod(result, "email_junction")
    /\ HasMethod(result, "domain_fallback")

RECURSIVE Concat(_)
Concat(ss) == IF ss = <<>> THEN <<>> ELSE Head(ss) \o Concat(Tail(ss))

\* ms without every match whose identity occurs earlier in ms
FirstOccurrences(ms) ==
    LET keep == {i \in 1..Len(ms) : \A j \in 1..(i - 1) : Key(ms[j]) # Key(ms[i])}
        RECURSIVE Pick(_)
        Pick(i) == IF i > Len(ms) THEN <<>>
                   ELSE (IF i \in keep THEN <<ms[i]>> ELSE <<>>) \o Pick(i + 1)
    IN  Pick(1)

\* C4: ResolveMultiple(emails) is the concatenation of Resolve(e) over the
\* emails in input order with every occurrence of an identity after its first
\* removed; each entity keeps the method and confidence of its first occurrence.
C4_ResolveMultipleFirstOccurrence ==
    call.op = "resolve_multiple" =>
        result = FirstOccurrences(
                    Concat([i \in 1..Len(call.emails) |-> Resolve(index, call.emails[i])]))

\* investor i1 is first found by domain fallback and a later email of the batch
\* resolves it through the junction: the result keeps the fallback match
C4_Witness ==
    /\ call.op = "resolve_multiple"
    /\ Len(call.emails) = 2
    /\ \E i \in 1..Len(result) :
          /\ Key(result[i]) = <<"investors", "i1">>
          /\ result[i].match_method = "domain_fallback"
    /\ LET later == Resolve(index, call.emails[2])
       IN  \E j \in 1..Len(later) :
              /\ Key(later[j]) = <<"investors", "i1">>
              /\ later[j].match_method = "email_junction"

-----------------------------------------------------------------------------
(* JSON values of the model's response, and the Python values read from them *)

NoneId == "<None>"

JAbsent   == [t |-> "absent", s |-> "", n |-> 0]
JNull     == [t |-> "null", s |-> "", n |-> 0]
JStr(x)   == [t |-> "str", s |-> x, n |-> 0]
JInt(k)   == [t |-> "int", s |-> "", n |-> k]
\* a string of digits, "7"
JNumStr(k) == [t |-> "numstr", s |-> "", n |-> k]
\* a float whose integer part is k, 3.7
JFloat(k) == [t |-> "float", s |-> "", n |-> k]
\* 1e999, which json.loads reads as float("inf")
JInf      == [t |-> "inf", s |-> "", n |-> 0]
JList     == [t |-> "list", s |-> "", n |-> 0]

\* dict.get(key, default) where the value is a string or null
PyGet(j, default) ==
    CASE j.t = "absent" -> default
      [] j.t = "null" -> NoneId
      [] OTHER -> j.s

\* Python truthiness of an id: None and "" are false
TruthyId(x) == x # NoneId /\ x # ""

-----------------------------------------------------------------------------
(* ActionItem, ClassificationResult, MessageClassifier *)

NoScore == [none |-> TRUE, n |-> 0]
Score(k) == [none |-> FALSE, n |-> k]

Max(a, b) == IF a >= b THEN a ELSE b
Min(a, b) == IF a <= b THEN a ELSE b

ScoreLow == 1
ScoreHigh == 10

Unclamped(k) == k

\* max(1, min(10, k))
ClampScore(k) == Max(ScoreLow, Min(ScoreHigh, k))

\* int(grs) raises OverflowError, which the inner except does not catch
ScoreRaises(grs) == grs.t = "inf"

\* the goal_relevance_score of the ActionItem built from grs
ParseScore(grs) ==
    CASE grs.t \in {"absent", "null"} -> NoScore
      [] grs.t \in {"int", "numstr", "float"} -> Score(ClampScore(grs.n))
      [] OTHER -> NoScore

ActionItem(ai) ==
    [title    |-> PyGet(ai.title, "Untitled task"),
     priority |-> PyGet(ai.priority, "medium"),
     due_date |-> PyGet(ai.due_date, NoneId),
     goal_relevance_score |-> ParseScore(ai.goal_relevance_score)]

NoMatch == [entity_type |-> "<None>", entity_id |-> NoneId, entity_name |-> NoneId,
            match_method |-> "<None>", confidence |-> 0]

\* next((e for e in resolved_entities if e.entity_type == pref_type), None)
RECURSIVE FirstOfType(_, _)
FirstOfType(resolved, type) ==
    IF resolved = <<>> THEN NoMatch
    ELSE IF Head(resolved).entity_type = type THEN Head(resolved)
    ELSE FirstOfType(Tail(resolved), type)

PrefTypes == <<"investors", "soccer_orgs", "contacts">>

\* the first resolved match, whatever its type
FirstResolved(resolved, prefs) ==
    IF resolved = <<>> THEN NoMatch ELSE Head(resolved)

\* for pref_type in prefs: the first match of that type, if any
RECURSIVE PreferredMatch(_, _)
PreferredMatch(resolved, prefs) ==
    IF prefs = <<>> THEN NoMatch
    ELSE LET m == FirstOfType(resolved, Head(prefs))
         IN  IF m # NoMatch THEN m ELSE PreferredMatch(resolved, Tail(prefs))

FallbackResult(subject, resolved) ==
    LET m == IF resolved # <<>> THEN PreferredMatch(resolved, PrefTypes) ELSE NoMatch
    IN  [primary_silo        |-> IF m # NoMatch THEN m.entity_type ELSE "contacts",
         primary_entity_id   |-> m.entity_id,
         primary_entity_name |-> m.entity_name,
         summary             |-> <<"Email: ">> \o subject,
         action_items        |-> <<>>,
         tags                |-> <<"unclassified">>,
         sentiment           |-> "neutral"]

\* the text between the code fences, without a leading "json"
Unfence(text) ==
    LET t1 == Strip(text)
    IN  IF t1 # <<>> /\ t1[1] = "<fence>"
        THEN LET t2 == Split(t1, "<fence>")[2]
                 t3 == IF t2 # <<>> /\ t2[1] = "json" THEN Tail(t2) ELSE t2
             IN  Strip(t3)
        ELSE t1

\* json.loads succeeds on a text that is one JSON document and nothing else
JsonLoads(text, body) ==
    IF Unfence(text) = <<"<json>">> /\ body.kind # "garbage"
    THEN body
    ELSE [kind |-> "error"]

\* what classify() does with the response of messages.create
ClassifyFallsBack(resp) ==
    \/ resp.raises
    \/ LET data == JsonLoads(resp.text, resp.body)
       IN  \/ data.kind = "error"          \* json.JSONDecodeError
           \/ data.kind = "array"          \* data.get: AttributeError
           \/ \E i \in 1..Len(data.action_items) :
                 ScoreRaises(data.action_items[i].goal_relevance_score)

Classify(subject, resolved, resp) ==
    IF ClassifyFallsBack(resp) THEN FallbackResult(subject, resolved)
    ELSE LET data == JsonLoads(resp.text, resp.body)
         IN  [primary_silo        |-> PyGet(data.primary_silo, "contacts"),
              primary_entity_id   |-> PyGet(data.primary_entity_id, NoneId),
              primary_entity_name |-> PyGet(data.primary_entity_name, NoneId),
              summary             |-> <<PyGet(data.summary, "Message processed")>>,
              action_items        |-> [i \in 1..Len(data.action_items) |->
                                          ActionItem(data.action_items[i])],
              tags                |-> data.tags,
              sentiment           |-> PyGet(data.sentiment, "neutral")]

-----------------------------------------------------------------------------
(* The snapshot, the resolved lists and the responses the classifier and the
   pipeline are exercised on *)

Contact3 == [id |-> "c3", name |-> "Xi", email |-> <<"X", "@", "gmail.com">>,
             organization |-> NoneStr]

BaseSnapshot ==
    [contacts            |-> <<Contact1, Contact2, Contact3>>,
     contact_emails      |-> << [contact_id |-> "c2",
                                 email |-> <<" ", "K", "@", "club.org">>] >>,
     investor_contacts   |-> << [contact_id |-> "c1", entity |-> Investor1] >>,
     soccer_org_contacts |-> << [contact_id |-> "c2", entity |-> Org1] >>,
     investors           |-> << [id |-> "i1", name |-> "Fund One",
                                 website |-> <<"HTTPS://", "WWW.", "Fund.com", "/path">>],
                                [id |-> "i2", name |-> "Fund Two",
                                 website |-> <<"club.org">>] >>,
     soccer_orgs         |-> << [id |-> "o1", name |-> "Club",
                                 website |-> <<"www.", "fund.com">>] >>]

BaseIndex == Load(BaseSnapshot)

ParticipantEmails == {EmailJane, EmailKimAlt, EmailFund, EmailGmail, EmailNoAt}

ResolvedLists ==
    {ResolveMultiple(BaseIndex, es) : es \in SeqsUpTo(ParticipantEmails, MaxBatch)}

TextPlain       == <<"<json>">>
TextPadded      == <<"\n", "<json>", " ">>
TextFencedJson  == <<"<fence>", "json", "\n", "<json>", "\n", "<fence>">>
TextFenced      == <<"<fence>", "\n", "<json>", "\n", "<fence>">>
TextFencedOther == <<"<fence>", "js", "\n", "<json>", "\n", "<fence>">>
TextProse       == <<"Sure:", "\n", "<json>">>

ScoreInputs ==
    {JInt(k) : k \in (0 - 1)..MaxScore}
        \cup {JNumStr(7), JFloat(3), JStr("abc"), JNull, JAbsent, JList, JInf}

ItemInputs ==
    { [title |-> JStr("Send deck"), priority |-> JStr("high"), due_date |-> JNull,
       goal_relevance_score |-> g] : g \in ScoreInputs }
    \cup
    { [title |-> JAbsent, priority |-> pr, due_date |-> JStr("2026-01-31"),
       goal_relevance_score |-> JInt(5)] : pr \in {JAbsent, JStr("bogus")} }

Object(silo, id, items) ==
    [kind                |-> "object",
     primary_silo        |-> silo,
     primary_entity_id   |-> id,
     primary_entity_name |-> IF id.t = "str" THEN JStr("Fund One") ELSE id,
     summary             |-> IF silo.t = "absent" THEN JAbsent ELSE JStr("Deck request"),
     sentiment           |-> CASE silo.t = "absent" -> JAbsent
                               [] silo.s = "bogus" -> JStr("angry")
                               [] OTHER -> JStr("urgent"),
     action_items        |-> items,
     tags                |-> IF silo.t = "absent" THEN <<>> ELSE <<"follow-up">>]

SiloInputs == {JStr("investors"), JStr("bogus"), JAbsent}
IdInputs == {JStr("i1"), JStr("zz"), JNull}

Garbage == [kind |-> "garbage"]
Array == [kind |-> "array"]

Response(raises, text, body) == [raises |-> raises, text |-> text, body |-> body]

GoodObject == Object(JStr("investors"), JStr("i1"), <<>>)

\* responses on which classify() ends in an except clause
FailingResponses ==
    { Response(TRUE, TextPlain, Garbage),
      Response(FALSE, TextPlain, Garbage),
      Response(FALSE, TextFencedJson, Garbage),
      Response(FALSE, TextPlain, Array),
      Response(FALSE, TextFencedOther, GoodObject),
      Response(FALSE, TextProse, GoodObject),
      Response(FALSE, <<"<fence>">>, GoodObject),
      Response(FALSE, TextPlain,
               Object(JStr("investors"), JStr("i1"),
                      << [title |-> JStr("Send deck"), priority |-> JStr("high"),
                          due_date |-> JNull, goal_relevance_score |-> JInf] >>)) }

ObjectResponses ==
    { Response(FALSE, TextPlain, Object(silo, id, items)) :
        silo \in SiloInputs, id \in IdInputs, items \in SeqsUpTo(ItemInputs, MaxItems) }
    \cup
    { Response(FALSE, text, GoodObject) : text \in {TextPadded, TextFencedJson, TextFenced} }

ClassifyInputs ==
    { [resolved |-> r, resp |-> resp] : r \in ResolvedLists, resp \in FailingResponses }
    \cup
    { [resolved |-> ResolveMultiple(BaseIndex, <<EmailJane>>), resp |-> resp] :
        resp \in ObjectResponses }

Subject == <<"Deck">>

InitClassify ==
    /\ snapshot = BaseSnapshot
    /\ index = BaseIndex
    /\ call = NoCall
    /\ result = <<>>
    /\ PipelineIdle

CallClassify ==
    /\ call = NoCall
    /\ \E in \in ClassifyInputs :
        /\ call' = [op |-> "classify", resolved |-> in.resolved, resp |-> in.resp]
        /\ result' = Classify(Subject, in.resolved, in.resp)
        /\ UNCHANGED <<detector, snapshot, index>>
        /\ UNCHANGED pipelineVars

NextClassify == CallClassify

SpecClassify == InitClassify /\ [][NextClassify]_vars

-----------------------------------------------------------------------------
(* Claims about the classifier, under SpecClassify *)

TypesOf(ms) == {ms[i].entity_type : i \in 1..Len(ms)}

\* the least position of ms holding a match of the given type
FirstIndexOfType(ms, type) ==
    CHOOSE i \in 1..Len(ms) :
        /\ ms[i].entity_type = type
        /\ \A j \in 1..(i - 1) : ms[j].entity_type # type

\* the call raised or its text is not one valid JSON document
CallFailedOrInvalidJson(resp) ==
    resp.raises \/ JsonLoads(resp.text, resp.body).kind = "error"

C17_ResultWellFormed ==
    call.op = "classify" =>
        /\ result.primary_silo \in {"investors", "soccer_orgs", "contacts"}
        /\ result.sentiment \in {"positive", "neutral", "negative", "urgent"}
        /\ \A i \in 1..Len(result.action_items) :
              result.action_items[i].priority \in {"low", "medium", "high", "critical"}

\* the response was parsed and no score of it is a float too large for int()
ParsedItems(resp) ==
    /\ ~resp.raises
    /\ JsonLoads(resp.text, resp.body).kind = "object"
    /\ \A i \in 1..Len(resp.body.action_items) :
          resp.body.action_items[i].goal_relevance_score.t # "inf"

\* C9: the goal_relevance_score of every resulting ActionItem is null or an
\* integer in [1,10]: an integer below 1 becomes 1, above 10 becomes 10, one in
\* range is kept, a non-numeric or absent value becomes null, and the other
\* action items of the response are kept.
C9_ScoreClampedOrNull ==
    call.op = "classify" =>
        /\ \A i \in 1..Len(result.action_items) :
              LET g == result.action_items[i].goal_relevance_score
              IN  g.none \/ g.n \in 1..10
        /\ ParsedItems(call.resp) =>
              LET ins == call.resp.body.action_items
              IN  /\ Len(result.action_items) = Len(ins)
                  /\ \A i \in 1..Len(ins) :
                        LET in == ins[i].goal_relevance_score
                            g  == result.action_items[i].goal_relevance_score
                        IN  /\ (in.t = "int" /\ in.n < 1) => g = Score(1)
                            /\ (in.t = "int" /\ in.n > 10) => g = Score(10)
                            /\ (in.t = "int" /\ in.n \in 1..10) => g = Score(in.n)
                            /\ (in.t \in {"str", "absent"}) => g = NoScore

\* one response carries the scores 0 and "abc": the items come out as 1 and null
C9_Witness ==
    /\ call.op = "classify"
    /\ ParsedItems(call.resp)
    /\ Len(result.action_items) = 2
    /\ call.resp.body.action_items[1].goal_relevance_score = JInt(0)
    /\ call.resp.body.action_items[2].goal_relevance_score = JStr("abc")
    /\ result.action_items[1].goal_relevance_score = Score(1)
    /\ result.action_items[2].goal_relevance_score = NoScore

-----------------------------------------------------------------------------
(* gmail-scanner: header parsing *)

USER_EMAILS ==
    { <<"mark", "@", "madeinmotion.co">>, <<"mark", "@", "mim.co">>,
      <<"markslater9", "@", "gmail.com">> }

extract_email_address(header_value) ==
    IF Contains(header_value, "<")
    THEN Strip(Lower(Split(Split(header_value, "<")[2], ">")[1]))
    ELSE Lower(Strip(header_value))

\* [extract_email_address(e.strip()) for e in pieces if e.strip()]
RECURSIVE AddressesOf(_)
AddressesOf(pieces) ==
    IF pieces = <<>> THEN <<>>
    ELSE (IF Strip(Head(pieces)) # <<>>
          THEN <<extract_email_address(Strip(Head(pieces)))>>
          ELSE <<>>) \o AddressesOf(Tail(pieces))

parse_email_list(header_value) ==
    IF header_value = <<>> THEN <<>> ELSE AddressesOf(Split(header_value, ","))

determine_direction(from_email) ==
    IF from_email \in USER_EMAILS THEN "outbound" ELSE "inbound"

\* all_participant_emails = [from_email] + to_emails + cc_emails
Participants(details) ==
    <<extract_email_address(details.from)>>
        \o parse_email_list(details.to) \o parse_email_list(details.cc)

-----------------------------------------------------------------------------
(* The messages of the mailbox and the responses of the model *)

Mark == <<"mark", "@", "mim.co">>

\* from a contact linked to an investor, copied to a contact linked to a club
Message1 ==
    [id |-> "m1", thread_id |-> "t1", subject |-> <<"Deck">>,
     from |-> <<"Jane", " ", "<", "J", "@", "Fund.com", ">">>,
     to   |-> Mark \o <<",", " ">> \o <<"K", "@", "club.org">>,
     cc   |-> <<>>]

\* from an unknown sender at an investor's domain
Message2 ==
    [id |-> "m2", thread_id |-> "t2", subject |-> <<"Intro">>,
     from |-> <<"x", "@", "fund.com">>,
     to   |-> Mark,
     cc   |-> <<>>]

\* no participant is known
Message3 ==
    [id |-> "m3", thread_id |-> "t3", subject |-> <<"Offer">>,
     from |-> <<"News", " ", "<", "n", "@", "nowhere.io", ">">>,
     to   |-> Mark,
     cc   |-> <<"x">>]

Mailbox == {Message1, Message2, Message3}

OneItem ==
    << [title |-> JStr("Send deck"), priority |-> JStr("high"), due_date |-> JNull,
        goal_relevance_score |-> JInt(MaxScore)] >>

\* an action item whose title is null
NullTitleItem ==
    << [title |-> JNull, priority |-> JStr("high"), due_date |-> JNull,
        goal_relevance_score |-> JNull] >>

ModelResponses ==
    { Response(TRUE, TextPlain, Garbage),
      Response(FALSE, TextPlain, Garbage),
      Response(FALSE, TextFencedJson, Object(JStr("investors"), JStr("i1"), OneItem)),
      Response(FALSE, TextPlain, Object(JAbsent, JNull, OneItem)),
      Response(FALSE, TextPlain, Object(JStr("investors"), JStr("i1"), NullTitleItem)) }

-----------------------------------------------------------------------------
(* AgentBase: the tables it writes *)

RunIds == 1..MaxRuns

\* no message of the run was cut short after its correspondence row
NoCut == [msg |-> NoneId, had |-> 0, missing |-> 0]

\* the agent_runs row of a run, with what the model keeps about it: the calls
\* of complete_run and fail_run, the calls that raised, and the message (if
\* any) whose correspondence row was written but whose tasks were not all
\* written, with the number of task rows it had then and the number missing
NoRun ==
    [status |-> "none", records_processed |-> 0, records_updated |-> 0,
     complete_calls |-> 0, fail_calls |-> 0, faults |-> 0, cut |-> NoCut]

\* a lookup that never finds the message id
NeverDuplicate(table, message_id) == FALSE

\* is_correspondence_duplicate: len(result.data) > 0
is_correspondence_duplicate(table, message_id) ==
    \E i \in 1..Len(table) : table[i].gmail_message_id = message_id

\* the row log_correspondence inserts
CorrespondenceRow(entity_type, entity_id, direction, details, from_email, msg_id) ==
    [entity_type |-> entity_type, entity_id |-> entity_id, direction |-> direction,
     subject |-> details.subject, sender_email |-> from_email,
     gmail_message_id |-> msg_id, source |-> "gmail"]

\* a task row that leaves the entity out
TaskRowUnattributed(action, entity_type, entity_id, details, msg_id) ==
    [title |-> action.title, priority |-> action.priority, source |-> "gmail-scanner",
     entity_type |-> NoneId, entity_id |-> NoneId,
     due_date |-> action.due_date,
     goal_relevance_score |-> action.goal_relevance_score,
     gmail_thread_id |-> details.thread_id, gmail_message_id |-> msg_id]

\* the row create_task inserts: a falsy entity_type or entity_id is left out
TaskRow(action, entity_type, entity_id, details, msg_id) ==
    [title |-> action.title, priority |-> action.priority, source |-> "gmail-scanner",
     entity_type |-> IF TruthyId(entity_type) THEN entity_type ELSE NoneId,
     entity_id |-> IF TruthyId(entity_id) THEN entity_id ELSE NoneId,
     due_date |-> action.due_date,
     goal_relevance_score |-> action.goal_relevance_score,
     gmail_thread_id |-> details.thread_id, gmail_message_id |-> msg_id]

\* the row log_activity inserts
ActivityRow(entity_type, entity_id, res, details, direction, msg_id) ==
    [agent_name |-> "gmail-scanner", action_type |-> "email_scanned",
     entity_type |-> entity_type, entity_id |-> entity_id, summary |-> res.summary,
     direction |-> direction, tags |-> res.tags, sentiment |-> res.sentiment,
     action_count |-> Len(res.action_items), source_id |-> <<"gmail_", msg_id>>]

-----------------------------------------------------------------------------
(* gmail-scanner: run() *)

NoResult ==
    [primary_silo |-> "contacts", primary_entity_id |-> NoneId,
     primary_entity_name |-> NoneId, summary |-> <<>>, action_items |-> <<>>,
     tags |-> <<>>, sentiment |-> "neutral"]

\* no message in hand
NoCur == [msg_id |-> NoneId, all_matches |-> <<>>, llm |-> "none", result |-> NoResult]

IdleRun ==
    [pc |-> "idle", messages |-> <<>>, classifier |-> FALSE, records_processed |-> 0,
     records_updated |-> 0, skipped_dupes |-> 0, cur |-> NoCur]

\* the process has ended: its locals are gone
DoneRun == [IdleRun EXCEPT !.pc = "done"]

MessageById(id) == CHOOSE m \in Mailbox : m.id = id

MessageIds == {m.id : m \in Mailbox}

\* a result built from the match the classifier's fallback would prefer
PreferredMatchResult(all_matches, details) ==
    LET first == PreferredMatch(all_matches, PrefTypes)
    IN  [primary_silo        |-> first.entity_type,
         primary_entity_id   |-> first.entity_id,
         primary_entity_name |-> first.entity_name,
         summary             |-> <<"Email: ">> \o details.subject,
         action_items        |-> <<>>,
         tags                |-> <<>>,
         sentiment           |-> "neutral"]

\* the result built from the first resolved match when there is no classifier
FirstMatchResult(all_matches, details) ==
    LET first == all_matches[1]
    IN  [primary_silo        |-> first.entity_type,
         primary_entity_id   |-> first.entity_id,
         primary_entity_name |-> first.entity_name,
         summary             |-> <<"Email: ">> \o details.subject,
         action_items        |-> <<>>,
         tags                |-> <<>>,
         sentiment           |-> "neutral"]

\* create_task raises on a title that is None: title[:80]
TaskRaises(action) == action.title = NoneId

\* the first action item whose create_task raises, or 0
RaisingTask(items) ==
    IF \E k \in 1..Len(items) : TaskRaises(items[k])
    THEN CHOOSE k \in 1..Len(items) :
            /\ TaskRaises(items[k])
            /\ \A j \in 1..(k - 1) : ~TaskRaises(items[j])
    ELSE 0

CanFault(n) == faults + n <= MaxFaults

\* fail_run: the update of agent_runs, unless it raises itself
FailRun(ar, ok) ==
    [ar EXCEPT !.fail_calls = @ + 1,
               !.status = IF ok THEN "failed" ELSE @,
               !.faults = IF ok THEN @ ELSE @ + 1]

\* an except clause inside the loop body that goes on with the next message
ExceptContinues(r, ar, n) ==
    /\ CanFault(n)
    /\ faults' = faults + n
    /\ agent_runs' = [agent_runs EXCEPT ![r] = [ar EXCEPT !.faults = @ + n]]
    /\ UNCHANGED outcome
    /\ run' = [run EXCEPT ![r].pc = "loop", ![r].cur = NoCur]

\* the except clause of run(), after n calls of the step raised:
\* agent.fail_run(str(e)); raise
Except(r, ar, n) ==
    \E ok \in BOOLEAN :
        /\ CanFault(IF ok THEN n ELSE n + 1)
        /\ faults' = faults + (IF ok THEN n ELSE n + 1)
        /\ agent_runs' = [agent_runs EXCEPT ![r] = FailRun([ar EXCEPT !.faults = @ + n], ok)]
        /\ outcome' = [outcome EXCEPT ![r] = "raised"]
        /\ run' = [run EXCEPT ![r] = DoneRun]

\* runs do not overlap, and start in the order of their ids
MayStart(r) ==
    /\ run[r].pc = "idle"
    /\ \A q \in RunIds : q < r => run[q].pc = "done"

Running == [NoRun EXCEPT !.status = "running"]

\* AgentBase(AGENT_NAME) raises: no agent_runs row, nothing to mark failed
StartRaises(r) ==
    /\ MayStart(r)
    /\ CanFault(1)
    /\ faults' = faults + 1
    /\ agent_runs' = [agent_runs EXCEPT ![r] = [@ EXCEPT !.faults = @ + 1]]
    /\ outcome' = [outcome EXCEPT ![r] = "raised"]
    /\ run' = [run EXCEPT ![r] = DoneRun]
    /\ UNCHANGED <<detector, snapshot, index, call, result, correspondence, tasks, activity_log,
                   llm_calls, listed>>

\* get_gmail_service() returns None: fail_run("Gmail authentication failed"); return
\* a fail_run that raises there is caught by the except clause, which calls
\* fail_run again and raises
StartAuthFails(r) ==
    /\ MayStart(r)
    /\ CanFault(1)
    /\ \E ok \in BOOLEAN :
          IF ok
          THEN /\ faults' = faults + 1
               /\ agent_runs' = [agent_runs EXCEPT
                                    ![r] = FailRun([Running EXCEPT !.faults = 1], TRUE)]
               /\ outcome' = [outcome EXCEPT ![r] = "returned"]
               /\ run' = [run EXCEPT ![r] = DoneRun]
          ELSE Except(r, [Running EXCEPT !.fail_calls = 1], 2)
    /\ UNCHANGED <<detector, snapshot, index, call, result, correspondence, tasks, activity_log,
                   llm_calls, listed>>

\* get_gmail_service(), EntityResolver(agent.sb) or get_recent_messages() raises
StartSetupRaises(r) ==
    /\ MayStart(r)
    /\ Except(r, Running, 1)
    /\ UNCHANGED <<detector, snapshot, index, call, result, correspondence, tasks, activity_log,
                   llm_calls, listed>>

\* run() up to its loop: the agent_runs row is inserted, the resolver is
\* loaded and the messages are listed
SetUp(r) ==
    /\ ~LoadRaises(snapshot)
    /\ agent_runs' = [agent_runs EXCEPT ![r] = Running]
    /\ index' = Load(snapshot)
    /\ \E ms \in SeqsUpTo(MessageIds, MaxMsgs - listed), cl \in BOOLEAN :
          /\ run' = [run EXCEPT ![r] = [IdleRun EXCEPT !.pc = "loop", !.messages = ms,
                                                       !.classifier = cl]]
          /\ listed' = listed + Len(ms)
    /\ UNCHANGED <<detector, snapshot, call, result, correspondence, tasks, activity_log,
                   llm_calls, outcome, faults>>

\* the run is set up, after the runs before it have ended
StartRun(r) == MayStart(r) /\ SetUp(r)

\* the run is set up while another run may be in its loop: nothing in run()
\* or AgentBase keeps two processes from running at once
StartOverlapping(r) == run[r].pc = "idle" /\ SetUp(r)

\* what the resolver loaded from BaseSnapshot answers for each message
BaseMatches ==
    [id \in MessageIds |-> ResolveMultiple(BaseIndex, Participants(MessageById(id)))]

\* all_matches = resolver.resolve_multiple(all_emails), on the participants of
\* the message; the answers of BaseIndex are worked out once
ResolveParticipants(idx, msg_id) ==
    IF idx = BaseIndex
    THEN BaseMatches[msg_id]
    ELSE ResolveMultiple(idx, Participants(MessageById(msg_id)))

\* the message the loop of run r takes next
Upcoming(r) == run[r].messages[run[r].records_processed + 1]

\* the loop body never skips a message for its matches
SkipsNothing(all_matches) == FALSE

\* if not all_matches: continue
SkipsMessage(all_matches) == all_matches = <<>>

\* for msg_ref in messages: records_processed += 1; a message already in
\* correspondence is skipped, and so is one none of whose participants resolves
NextMessage(r) ==
    /\ run[r].pc = "loop"
    /\ run[r].records_processed < Len(run[r].messages)
    /\ LET n           == run[r].records_processed + 1
           msg_id      == run[r].messages[n]
           all_matches == ResolveParticipants(index, msg_id)
       IN  run' = [run EXCEPT ![r] =
                     IF is_correspondence_duplicate(correspondence, msg_id)
                     THEN [@ EXCEPT !.records_processed = n,
                                    !.skipped_dupes = @ + 1,
                                    !.cur = NoCur]
                     ELSE IF SkipsMessage(all_matches)
                     THEN [@ EXCEPT !.records_processed = n,
                                    !.cur = NoCur]
                     ELSE [@ EXCEPT !.records_processed = n,
                                    !.pc = "message",
                                    !.cur = [NoCur EXCEPT !.msg_id = msg_id,
                                                          !.all_matches = all_matches]]]
    \* a duplicate is skipped before resolve_multiple is called
    /\ index' = IF is_correspondence_duplicate(correspondence, Upcoming(r))
                 THEN index
                 ELSE IndexAfterResolve(index, Participants(MessageById(Upcoming(r))))
    /\ UNCHANGED <<detector, snapshot, call, result, correspondence, tasks, activity_log,
                   agent_runs, llm_calls, outcome, faults, listed>>

\* is_correspondence_duplicate raises
DedupRaises(r) ==
    /\ run[r].pc = "loop"
    /\ run[r].records_processed < Len(run[r].messages)
    /\ Except(r, agent_runs[r], 1)
    /\ UNCHANGED <<detector, snapshot, index, call, result, correspondence, tasks, activity_log,
                   llm_calls, listed>>

\* get_message_details raises, on a message that is not in correspondence
DetailsRaises(r) ==
    /\ run[r].pc = "loop"
    /\ run[r].records_processed < Len(run[r].messages)
    /\ ~is_correspondence_duplicate(correspondence,
                                    run[r].messages[run[r].records_processed + 1])
    /\ Except(r, agent_runs[r], 1)
    /\ UNCHANGED <<detector, snapshot, index, call, result, correspondence, tasks, activity_log,
                   llm_calls, listed>>

NoResponse == Response(FALSE, <<>>, Garbage)

\* the classification of the message in hand
Classification(r, resp) ==
    LET details == MessageById(run[r].cur.msg_id)
    IN  IF run[r].classifier
        THEN Classify(details.subject, run[r].cur.all_matches, resp)
        ELSE FirstMatchResult(run[r].cur.all_matches, details)

\* the rows the loop body writes for one message, in the order it writes them
Writes(details, res) ==
    LET from_email  == extract_email_address(details.from)
        direction   == determine_direction(from_email)
        entity_type == res.primary_silo
        entity_id   == res.primary_entity_id
    IN  [correspondence |->
            IF TruthyId(entity_id)
            THEN <<CorrespondenceRow(entity_type, entity_id, direction, details,
                                     from_email, details.id)>>
            ELSE <<>>,
         tasks |->
            [i \in 1..Len(res.action_items) |->
                TaskRow(res.action_items[i], entity_type, entity_id, details, details.id)],
         activity |->
            <<ActivityRow(entity_type, entity_id, res, details, direction, details.id)>>]

LlmState(r, resp) ==
    IF ~run[r].classifier THEN "unused"
    ELSE IF resp.raises \/ JsonLoads(resp.text, resp.body).kind = "error" THEN "failed"
    ELSE "ok"

\* classify, log the correspondence, create the tasks, log the activity
ProcessMessage(r) ==
    /\ run[r].pc = "message"
    /\ \E resp \in (IF run[r].classifier THEN ModelResponses ELSE {NoResponse}) :
          /\ LET res == Classification(r, resp)
                 w   == Writes(MessageById(run[r].cur.msg_id), res)
             IN  /\ RaisingTask(res.action_items) = 0
                 /\ correspondence' = correspondence \o w.correspondence
                 /\ tasks' = tasks \o w.tasks
                 /\ activity_log' = activity_log \o w.activity
                 /\ run' = [run EXCEPT ![r].pc = "loop",
                                       ![r].records_updated = @ + 1,
                                       ![r].cur.llm = LlmState(r, resp),
                                       ![r].cur.result = res]
          /\ llm_calls' = llm_calls + (IF run[r].classifier THEN 1 ELSE 0)
    /\ UNCHANGED <<detector, snapshot, index, call, result, agent_runs, outcome, faults, listed>>

\* the write at which a failing persistence call cuts the loop body short
FaultPoints(w, raising) ==
    {[at |-> "correspondence", k |-> 0] : x \in {1 : i \in 1..Len(w.correspondence)}}
        \cup {[at |-> "task", k |-> k] :
                 k \in 1..(IF raising = 0 THEN Len(w.tasks) ELSE raising)}
        \cup {[at |-> "activity", k |-> 0] : x \in {1 : i \in 1..(IF raising = 0 THEN 1 ELSE 0)}}

\* the task rows of a message
TasksOfMessage(table, msg_id) ==
    {i \in 1..Len(table) : table[i].gmail_message_id = msg_id}

\* what is kept about a message whose writes w were cut short at f
CutAt(msg_id, w, f) ==
    IF f.at = "task" /\ w.correspondence # <<>>
    THEN [msg     |-> msg_id,
          had     |-> Cardinality(TasksOfMessage(tasks, msg_id)) + (f.k - 1),
          missing |-> Len(w.tasks) - (f.k - 1)]
    ELSE NoCut

\* log_correspondence, create_task or log_activity raises: the rows written
\* before it stay, and the except clause ends the run
ProcessFaults(r) ==
    /\ run[r].pc = "message"
    /\ \E resp \in (IF run[r].classifier THEN ModelResponses ELSE {NoResponse}) :
          /\ llm_calls' = llm_calls + (IF run[r].classifier THEN 1 ELSE 0)
          /\ LET res == Classification(r, resp)
                 w   == Writes(MessageById(run[r].cur.msg_id), res)
             IN  \E f \in FaultPoints(w, RaisingTask(res.action_items)) :
                    /\ correspondence' =
                          IF f.at = "correspondence" THEN correspondence
                          ELSE correspondence \o w.correspondence
                    /\ tasks' =
                          CASE f.at = "correspondence" -> tasks
                            [] f.at = "task" -> tasks \o SubSeq(w.tasks, 1, f.k - 1)
                            [] OTHER -> tasks \o w.tasks
                    /\ UNCHANGED activity_log
                    /\ Except(r, [agent_runs[r] EXCEPT
                                     !.cut = CutAt(run[r].cur.msg_id, w, f)], 1)
    /\ UNCHANGED <<detector, snapshot, index, call, result, listed>>

\* create_task raises on an action item of the classification (its title is
\* None): the tasks before it are written, its own row is written if the insert
\* took it, and the except clause ends the run
ProcessTaskRaises(r) ==
    /\ run[r].pc = "message"
    /\ \E resp \in (IF run[r].classifier THEN ModelResponses ELSE {NoResponse}) :
          /\ llm_calls' = llm_calls + (IF run[r].classifier THEN 1 ELSE 0)
          /\ LET res == Classification(r, resp)
                 w   == Writes(MessageById(run[r].cur.msg_id), res)
                 k   == RaisingTask(res.action_items)
             IN  /\ k # 0
                 /\ correspondence' = correspondence \o w.correspondence
                 /\ \E inserted \in BOOLEAN :
                       tasks' = tasks \o SubSeq(w.tasks, 1, IF inserted THEN k ELSE k - 1)
                 /\ UNCHANGED activity_log
    /\ Except(r, agent_runs[r], 0)
    /\ UNCHANGED <<detector, snapshot, index, call, result, listed>>

\* after the loop: the counters are handed to complete_run()
CompleteRun(r) ==
    /\ run[r].pc = "loop"
    /\ run[r].records_processed = Len(run[r].messages)
    /\ agent_runs' = [agent_runs EXCEPT
                         ![r] = [@ EXCEPT !.status = "completed",
                                          !.complete_calls = @ + 1,
                                          !.records_processed = run[r].records_processed,
                                          !.records_updated = run[r].records_updated]]
    /\ outcome' = [outcome EXCEPT ![r] = "returned"]
    /\ run' = [run EXCEPT ![r] = DoneRun]
    /\ UNCHANGED <<detector, snapshot, index, call, result, correspondence, tasks, activity_log,
                   llm_calls, faults, listed>>

\* the update inside complete_run() raises: the except clause calls fail_run
CompleteRaises(r) ==
    /\ run[r].pc = "loop"
    /\ run[r].records_processed = Len(run[r].messages)
    /\ Except(r, [agent_runs[r] EXCEPT !.complete_calls = @ + 1], 1)
    /\ UNCHANGED <<detector, snapshot, index, call, result, correspondence, tasks, activity_log,
                   llm_calls, listed>>

Init ==
    /\ snapshot = BaseSnapshot
    /\ index = EmptyIndex
    /\ call = NoCall
    /\ result = <<>>
    /\ correspondence = <<>>
    /\ tasks = <<>>
    /\ activity_log = <<>>
    /\ agent_runs = [r \in RunIds |-> NoRun]
    /\ run = [r \in RunIds |-> IdleRun]
    /\ llm_calls = 0
    /\ outcome = [r \in RunIds |-> "none"]
    /\ faults = 0
    /\ listed = 0
    /\ detector = IdleDetector

Next ==
    \E r \in RunIds :
        \/ StartRun(r)
        \/ StartRaises(r)
        \/ StartAuthFails(r)
        \/ StartSetupRaises(r)
        \/ NextMessage(r)
        \/ DedupRaises(r)
        \/ DetailsRaises(r)
        \/ ProcessMessage(r)
        \/ ProcessFaults(r)
        \/ ProcessTaskRaises(r)
        \/ CompleteRun(r)
        \/ CompleteRaises(r)

Spec == Init /\ [][Next]_vars

-----------------------------------------------------------------------------
(* Claims about run(), under Spec *)

\* a correspondence row carries the message id
HasRecord(message_id) ==
    \E i \in 1..Len(correspondence) : correspondence[i].gmail_message_id = message_id

\* some participant of the message resolves to an entity
Known(message_id) == ResolveParticipants(index, message_id) # <<>>

\* C5: the iteration of a message whose id already has a correspondence row
\* makes no language-model call, resolves nothing, writes no correspondence,
\* task or activity row, adds one to the processed counter and leaves the
\* updated counter as it was.
C5_DuplicateSkipped ==
    [][\A r \in RunIds :
          ( /\ run[r].pc = "loop"
            /\ run[r].records_processed < Len(run[r].messages)
            /\ HasRecord(Upcoming(r))
            /\ run'[r] # run[r]
            /\ outcome'[r] = "none" )
          => /\ llm_calls' = llm_calls
             /\ correspondence' = correspondence
             /\ tasks' = tasks
             /\ activity_log' = activity_log
             /\ run'[r].pc = "loop"
             /\ run'[r].cur = NoCur
             /\ run'[r].records_processed = run[r].records_processed + 1
             /\ run'[r].records_updated = run[r].records_updated
             /\ run'[r].skipped_dupes = run[r].skipped_dupes + 1]_vars

\* a run has just skipped a message that has a correspondence row
C5_Witness ==
    \E r \in RunIds :
        /\ run[r].pc = "loop"
        /\ run[r].skipped_dupes >= 1
        /\ run[r].records_processed >= 1
        /\ run[r].cur = NoCur
        /\ HasRecord(run[r].messages[run[r].records_processed])

\* C6: no two correspondence rows carry the same source message id.
C6_OneRecordPerMessage ==
    \A i, j \in 1..Len(correspondence) :
        correspondence[i].gmail_message_id = correspondence[j].gmail_message_id => i = j

\* a run has gone through a message listed twice, and it has its one row
C6_Witness ==
    \E r \in RunIds :
        \E i, j \in 1..Len(run[r].messages) :
            /\ i < j
            /\ run[r].messages[i] = run[r].messages[j]
            /\ run[r].records_processed >= j
            /\ run[r].records_updated >= 1
            /\ HasRecord(run[r].messages[i])

\* C7: a message none of whose participants resolves is never in hand for
\* classification, and no correspondence, task or activity row is written
\* for it.
C7_UnknownSkipped ==
    /\ \A r \in RunIds : run[r].pc = "message" => Known(run[r].cur.msg_id)
    /\ \A i \in 1..Len(correspondence) : Known(correspondence[i].gmail_message_id)
    /\ \A i \in 1..Len(tasks) : Known(tasks[i].gmail_message_id)
    /\ \A i \in 1..Len(activity_log) : Known(activity_log[i].source_id[2])

\* the loop has just passed a message with no known participant and no row
C7_Witness ==
    \E r \in RunIds :
        /\ run[r].pc = "loop"
        /\ run[r].records_processed >= 1
        /\ run[r].cur = NoCur
        /\ run[r].skipped_dupes = 0
        /\ ~Known(run[r].messages[run[r].records_processed])
        /\ ~HasRecord(run[r].messages[run[r].records_processed])

\* C10: when the language-model call of a message raises or its output is
\* malformed, the message gets the fallback classification and is persisted,
\* and the run is not aborted: a run in which no persistence, authentication
\* or message-source call failed ends returned and completed, with
\* complete_run called once and fail_run never.
C10_LlmFailureNeverAborts ==
    \A r \in RunIds :
        /\ (run[r].pc = "loop" /\ run[r].cur.llm = "failed")
              => /\ run[r].cur.result =
                       FallbackResult(MessageById(run[r].cur.msg_id).subject,
                                      run[r].cur.all_matches)
                 /\ HasRecord(run[r].cur.msg_id)
                 /\ \E i \in 1..Len(activity_log) :
                       activity_log[i].source_id = <<"gmail_", run[r].cur.msg_id>>
        /\ (outcome[r] # "none" /\ agent_runs[r].faults = 0)
              => /\ outcome[r] = "returned"
                 /\ agent_runs[r].status = "completed"
                 /\ agent_runs[r].complete_calls = 1
                 /\ agent_runs[r].fail_calls = 0

\* the run was started (its agent_runs row exists) and has ended
Ended(r) == outcome[r] # "none" /\ agent_runs[r].status # "none"

\* C11: for every run that was started, by the time it ends exactly one of
\* complete_run and fail_run has been called: never both, never neither.
C11_ExactlyOneOfCompleteFail ==
    \A r \in RunIds :
        Ended(r) =>
            (agent_runs[r].complete_calls > 0) # (agent_runs[r].fail_calls > 0)

\* C12: the iteration that classifies a message with a null primary entity
\* leaves the updated counter as it was (the processed counter has been
\* incremented at the top of the iteration).
C12_NullEntityNotUpdated ==
    [][\A r \in RunIds :
          ( /\ run[r].pc = "message"
            /\ run'[r].pc = "loop"
            /\ ~TruthyId(run'[r].cur.result.primary_entity_id) )
          => /\ run'[r].records_updated = run[r].records_updated
             /\ run'[r].records_processed = run[r].records_processed]_vars

\* the rows of a table the step has added at its end
Added(old, new) == SubSeq(new, Len(old) + 1, Len(new))

\* the task rows of a message attributed to an entity
TasksOf(message_id, entity_id) ==
    {i \in 1..Len(tasks) : /\ tasks[i].gmail_message_id = message_id
                           /\ tasks[i].entity_id = entity_id}

\* the writes of one message come in the order correspondence, tasks, activity
C13_Order ==
    /\ \A i \in 1..Len(tasks) :
          tasks[i].entity_id # NoneId => HasRecord(tasks[i].gmail_message_id)
    /\ \A i \in 1..Len(activity_log) :
          activity_log[i].entity_id # NoneId =>
              /\ HasRecord(activity_log[i].source_id[2])
              /\ Cardinality(TasksOf(activity_log[i].source_id[2],
                                     activity_log[i].entity_id))
                    = activity_log[i].action_count

\* the writes of the iteration that processes a message with a primary entity
C13_Step(r) ==
    LET res == run'[r].cur.result
        id  == run[r].cur.msg_id
        cs  == Added(correspondence, correspondence')
        ts  == Added(tasks, tasks')
        as  == Added(activity_log, activity_log')
    IN  /\ SubSeq(correspondence', 1, Len(correspondence)) = correspondence
        /\ SubSeq(tasks', 1, Len(tasks)) = tasks
        /\ SubSeq(activity_log', 1, Len(activity_log)) = activity_log
        /\ Len(cs) = 1
        /\ cs[1].gmail_message_id = id
        /\ cs[1].entity_type = res.primary_silo
        /\ cs[1].entity_id = res.primary_entity_id
        /\ Len(ts) = Len(res.action_items)
        /\ \A i \in 1..Len(ts) :
              /\ ts[i].title = res.action_items[i].title
              /\ ts[i].gmail_message_id = id
              /\ ts[i].entity_type = res.primary_silo
              /\ ts[i].entity_id = res.primary_entity_id
        /\ Len(as) = 1
        /\ as[1].source_id = <<"gmail_", id>>
        /\ as[1].action_count = Len(ts)
        /\ as[1].entity_type = res.primary_silo
        /\ as[1].entity_id = res.primary_entity_id

C14_TasksEntityAttributed ==
    \A i \in 1..Len(tasks) :
        /\ tasks[i].entity_id # NoneId
        /\ tasks[i].entity_type # NoneId

\* the types of the matches of a list
MatchTypes(ms) == {ms[i].entity_type : i \in 1..Len(ms)}

\* the first match of the list that has the type
FirstMatchOfType(ms, type) ==
    ms[CHOOSE i \in 1..Len(ms) :
          /\ ms[i].entity_type = type
          /\ \A j \in 1..(i - 1) : ms[j].entity_type # type]

\* a run without classifier has just processed a message
ProcessedWithoutClient(r) ==
    /\ run[r].pc = "loop"
    /\ run[r].cur.llm = "unused"
    /\ run[r].cur.msg_id # NoneId

\* C15 as claimed: with no language-model client the result takes the
\* highest-preference resolved match (investor, then organization, then
\* contact) as primary entity and has no action items.
C15_NoClientTakesPreferred ==
    \A r \in RunIds :
        ProcessedWithoutClient(r) =>
            LET ms   == run[r].cur.all_matches
                type == IF "investors" \in MatchTypes(ms) THEN "investors"
                        ELSE IF "soccer_orgs" \in MatchTypes(ms) THEN "soccer_orgs"
                        ELSE "contacts"
                m    == FirstMatchOfType(ms, type)
            IN  /\ run[r].cur.result.primary_silo = m.entity_type
                /\ run[r].cur.result.primary_entity_id = m.entity_id
                /\ run[r].cur.result.action_items = <<>>

\* C15 as amended: with no language-model client the result takes the first
\* resolved match, in the order of resolve_multiple, as primary entity and
\* has no action items.
C15_NoClientTakesFirst ==
    \A r \in RunIds :
        ProcessedWithoutClient(r) =>
            LET m == run[r].cur.all_matches[1]
            IN  /\ run[r].cur.result.primary_silo = m.entity_type
                /\ run[r].cur.result.primary_entity_id = m.entity_id
                /\ run[r].cur.result.primary_entity_name = m.entity_name
                /\ run[r].cur.result.action_items = <<>>

\* without a client, a sender that resolves to a contact and then to an
\* investor linked to it: the primary entity is the contact
C15_Witness ==
    \E r \in RunIds :
        /\ ProcessedWithoutClient(r)
        /\ Len(run[r].cur.all_matches) >= 2
        /\ run[r].cur.all_matches[1].entity_type = "contacts"
        /\ run[r].cur.all_matches[2].entity_type = "investors"
        /\ run[r].cur.all_matches[2].match_method = "email_junction"
        /\ run[r].cur.result.primary_silo = "contacts"
        /\ run[r].cur.result.primary_entity_id = run[r].cur.all_matches[1].entity_id

\* C16: a started run in which authentication failed or a persistence or
\* message-source call raised ends marked failed, and the process ends by
\* raising (a non-zero exit for the orchestrator).
C16_FatalFailureMarkedAndNonZero ==
    \A r \in RunIds :
        (Ended(r) /\ agent_runs[r].faults > 0) =>
            /\ agent_runs[r].status = "failed"
            /\ outcome[r] = "raised"

-----------------------------------------------------------------------------
(* EntityResolver(sb): _load on snapshots with colliding, blank and missing
   emails, absent contacts and entities, and unusable websites *)

\* Jane; a second contact with her email in another case; contacts whose
\* email is blank, null, empty
LoadContactRows ==
    { Contact1,
      [id |-> "c4", name |-> "Jan", email |-> <<" ", "j", "@", "fund.com">>,
       organization |-> NoneStr],
      [id |-> "c5", name |-> "Blank", email |-> <<" ">>, organization |-> NoneStr],
      [id |-> "c6", name |-> "Nomail", email |-> NoneStr, organization |-> NoneStr],
      [id |-> "c7", name |-> "Empty", email |-> <<>>, organization |-> NoneStr] }

LoadContactEmailRows ==
    { [contact_id |-> "c4", email |-> <<"J", "@", "fund.com", " ">>],
      [contact_id |-> "c1", email |-> <<"Alt", "@", "x.io">>],
      [contact_id |-> "c9", email |-> <<"z", "@", "x.io">>],
      [contact_id |-> "c1", email |-> <<" ">>],
      [contact_id |-> "c1", email |-> NoneStr] }

\* the website strings of the investor whose row varies
Websites ==
    { <<"HTTPS://", "WWW.", "Example.com", "/path">>,
      <<"not", " ", "a", " ", "url">> }

LoadSnapshots ==
    { [contacts            |-> cs,
       contact_emails      |-> ces,
       investor_contacts   |-> << [contact_id |-> "c1", entity |-> Investor1],
                                  [contact_id |-> "c1", entity |-> NoRow],
                                  [contact_id |-> "c9", entity |-> Investor2] >>,
       soccer_org_contacts |-> <<>>,
       investors           |-> << [id |-> "i1", name |-> "Fund One",
                                   website |-> <<"https://", "[", "fund.com">>],
                                  [id |-> "i2", name |-> "Fund Two", website |-> <<>>],
                                  [id |-> "i3", name |-> "Fund Three",
                                   website |-> <<" ">>],
                                  [id |-> "i4", name |-> "Fund Four",
                                   website |-> w] >>,
       soccer_orgs         |-> <<>>] :
         w \in Websites,
         cs \in SeqsUpTo(LoadContactRows, MaxContacts),
         ces \in SeqsUpTo(LoadContactEmailRows, MaxContactEmails) }

LoadEmails == {EmailEmpty, <<" ">>, EmailJane, <<"alt", "@", "x.io">>, EmailFund}

\* before EntityResolver(sb) is constructed
InitLoad ==
    /\ snapshot \in LoadSnapshots
    /\ index = EmptyIndex
    /\ call = NoCall
    /\ result = <<>>
    /\ PipelineIdle

\* EntityResolver(sb): __init__ runs _load to its end
Build ==
    /\ call = NoCall
    /\ ~LoadRaises(snapshot)
    /\ index' = Load(snapshot)
    /\ call' = [op |-> "load", emails |-> <<>>]
    /\ UNCHANGED <<detector, snapshot, result>>
    /\ UNCHANGED pipelineVars

\* EntityResolver(sb): _load raises, no resolver comes to exist
BuildRaises ==
    /\ call = NoCall
    /\ LoadRaises(snapshot)
    /\ call' = [op |-> "load_raised", emails |-> <<>>]
    /\ UNCHANGED <<detector, snapshot, index, result>>
    /\ UNCHANGED pipelineVars

\* resolve(email) on the resolver that was built
ResolveBuilt ==
    /\ call.op = "load"
    /\ \E e \in LoadEmails :
          /\ call' = [op |-> "resolve", emails |-> <<e>>]
          /\ result' = Resolve(index, e)
    /\ UNCHANGED <<detector, snapshot, index>>
    /\ UNCHANGED pipelineVars

NextLoad == Build \/ BuildRaises \/ ResolveBuilt

SpecLoad == InitLoad /\ [][NextLoad]_vars

-----------------------------------------------------------------------------
(* Claims about _load, under SpecLoad *)

\* _load has run to its end
Built == call.op \in {"load", "resolve"}

\* the contact rows whose primary email normalizes to the key
ContactWriters(k) ==
    {i \in 1..Len(snapshot.contacts) :
        /\ snapshot.contacts[i].email # NoneStr
        /\ snapshot.contacts[i].email # <<>>
        /\ Normalized(snapshot.contacts[i].email) = k}

\* the contact_emails rows of a present contact whose email normalizes to the key
JunctionWriters(k) ==
    {i \in 1..Len(snapshot.contact_emails) :
        /\ Normalized(snapshot.contact_emails[i].email) = k
        /\ \E j \in 1..Len(snapshot.contacts) :
              snapshot.contacts[j].id = snapshot.contact_emails[i].contact_id}

Least(S) == CHOOSE i \in S : \A j \in S : i <= j

\* the id of the contact the first record of the snapshot maps the key to
FirstWriter(k) ==
    IF ContactWriters(k) # {}
    THEN snapshot.contacts[Least(ContactWriters(k))].id
    ELSE snapshot.contact_emails[Least(JunctionWriters(k))].contact_id

\* C18: in the email-to-contact table the first writer wins on every
\* collision of normalized email: each key maps to the contact of the first
\* record of the snapshot that carries it, contacts before contact_emails.
C18_FirstWriterWins ==
    Built =>
        \A k \in DOMAIN index.email_to_contacts :
            index.email_to_contacts[k].id = FirstWriter(k)

\* C19: after _load every key of the email-to-contact table is lower-cased,
\* trimmed and non-empty, and resolve of an empty address returns no match.
C19_KeysNormalizedNonEmpty ==
    /\ Built =>
          \A k \in DOMAIN index.email_to_contacts :
              k # <<>> /\ k = Normalized(k)
    /\ (call.op = "resolve" /\ Normalized(call.emails[1]) = <<>>) => result = <<>>

\* C20: _load never raises on a snapshot with missing emails, absent contacts
\* or entities, or unusable websites.
C20_BuildNeverRaises == call.op # "load_raised"

-----------------------------------------------------------------------------
(* Further claims about run(), under Spec *)

\* a run is between its setup and its end
InRun == \E r \in RunIds : run[r].pc \in {"loop", "message"}

\* C21: within a run no step (a resolve_multiple call, a correspondence, task
\* or activity write) changes any of the five lookup tables of the index.
C21_IndexReadOnlyInRun ==
    [][InRun => index' = index]_vars

\* a run has written a task for its first message and resolved its second
\* on the tables it loaded
C21_Witness ==
    \E r \in RunIds :
        /\ run[r].pc = "message"
        /\ run[r].records_processed = 2
        /\ run[r].records_updated = 1
        /\ Len(tasks) >= 1
        /\ Len(correspondence) >= 1
        /\ run[r].cur.all_matches # <<>>
        /\ index = Load(snapshot)

-----------------------------------------------------------------------------
(* Further claims about resolve, under SpecResolve *)

\* the matches of the entity a domain table maps the domain to, if any
MappedTo(table, type, domain) ==
    IF domain \in DOMAIN table
    THEN << [entity_type |-> type, entity_id |-> table[domain].id,
             entity_name |-> table[domain].name,
             match_method |-> "domain_fallback", confidence |-> 6] >>
    ELSE <<>>

\* C22: when the normalized email has no entry in the email-to-contact table,
\* Resolve(e) is the investor mapped to e's domain (if any) followed by the
\* organization mapped to it (if any), both as domain_fallback; it is empty
\* when e has no '@' or its domain is a consumer mail provider, even if an
\* investor or organization website has that domain.
C22_FallbackExact ==
    (call.op = "resolve" /\ ~Has(index.email_to_contacts, Normalized(call.emails[1])))
        => LET e == Normalized(call.emails[1])
               d == Strip(Lower(Split(e, "@")[2]))
           IN  IF ~Contains(e, "@") \/ d \in free_domains
               THEN result = <<>>
               ELSE result = MappedTo(index.domain_to_investors, "investors", d)
                             \o MappedTo(index.domain_to_orgs, "soccer_orgs", d)

\* an investor's website has the consumer domain gmail.com, the resolved
\* email is a gmail.com address of no contact, and nothing is returned
C22_Witness ==
    /\ call.op = "resolve"
    /\ Normalized(call.emails[1]) = <<"x", "@", "gmail.com">>
    /\ ~Has(index.email_to_contacts, Normalized(call.emails[1]))
    /\ Has(index.domain_to_investors, <<"gmail.com">>)
    /\ result = <<>>

\* the junction matches of the entities the rows link to contact cid, in row
\* order
LinkedTo(rows, cid, type) ==
    LET mine == SelectSeq(rows, LAMBDA r : r.contact_id = cid /\ r.entity # NoRow)
    IN  [i \in 1..Len(mine) |->
            [entity_type |-> type, entity_id |-> mine[i].entity.id,
             entity_name |-> mine[i].entity.name,
             match_method |-> "email_junction", confidence |-> 9]]

\* C24: when the normalized email has an entry in the email-to-contact table,
\* Resolve(e) is that contact (email_direct) at position 0, then the investors
\* linked to the contact in junction load order without later repeats, then
\* the organizations linked to it likewise (all email_junction); confidences
\* along Resolve(e) never increase.
C24_ContactThenLinked ==
    (call.op = "resolve" /\ Has(index.email_to_contacts, Normalized(call.emails[1])))
        => LET c == index.email_to_contacts[Normalized(call.emails[1])]
           IN  /\ result =
                     << [entity_type |-> "contacts", entity_id |-> c.id,
                         entity_name |-> c.name, match_method |-> "email_direct",
                         confidence |-> 10] >>
                     \o FirstOccurrences(LinkedTo(snapshot.investor_contacts, c.id,
                                                  "investors"))
                     \o FirstOccurrences(LinkedTo(snapshot.soccer_org_contacts, c.id,
                                                  "soccer_orgs"))
               /\ \A i \in 1..(Len(result) - 1) :
                      result[i].confidence >= result[i + 1].confidence

\* contact c1 is linked to investor i2 and then to i1, and to an
\* organization: the result keeps that order
C24_Witness ==
    /\ call.op = "resolve"
    /\ call.emails[1] = EmailJane
    /\ Len(result) = 4
    /\ result[1].entity_id = "c1"
    /\ result[2].entity_id = "i2"
    /\ result[3].entity_id = "i1"
    /\ result[4].entity_type = "soccer_orgs"

-----------------------------------------------------------------------------
(* A further claim about _load, under SpecLoad *)

\* the keys under which the domain table holds the investor
DomainsOf(id) ==
    {k \in DOMAIN index.domain_to_investors : index.domain_to_investors[k].id = id}

\* C23: domain extraction lower-cases the website, prepends a scheme if
\* absent, takes the hostname and strips one leading "www.": the investor
\* with website "HTTPS://WWW.Example.com/path" is indexed under "example.com",
\* and the investor with website "not a url" gets no domain entry.
C23_DomainExtraction ==
    Built =>
        LET w == snapshot.investors[4].website
        IN  /\ (w = <<"HTTPS://", "WWW.", "Example.com", "/path">>)
                   => DomainsOf("i4") = {<<"example.com">>}
            /\ (w = <<"not", " ", "a", " ", "url">>) => DomainsOf("i4") = {}

-----------------------------------------------------------------------------
(* Further claims about the records of a message *)

\* every run so far had at most one message in its batch and none has raised
SingleMessageRuns ==
    \A r \in RunIds :
        /\ outcome[r] # "raised"
        /\ Len(run[r].messages) <= 1
        /\ agent_runs[r].records_processed <= 1

\* C25: task creation is idempotent across non-overlapping runs: when the
\* same message is in the batch of more than one run and is classified the
\* same way each time, each of its action items has at most one task row,
\* also when the classification has a null primary entity. (Spec; stated for
\* runs of one message each that do not fail.)
C25_TasksIdempotent ==
    SingleMessageRuns =>
        \A i, j \in 1..Len(tasks) :
            ( /\ tasks[i].gmail_message_id = tasks[j].gmail_message_id
              /\ tasks[i].title = tasks[j].title
              /\ tasks[i].entity_type = tasks[j].entity_type
              /\ tasks[i].entity_id = tasks[j].entity_id )
            => i = j

\* the identities of the resolved matches
KeysOf(ms) == {Key(ms[i]) : i \in 1..Len(ms)}

\* C27: every correspondence and task row written for a message is
\* attributed to an (entity_type, entity_id) among the matches resolved for
\* the message, whatever primary_silo and primary_entity_id the model's JSON
\* holds. (SpecClassify; the rows are those the loop body writes for the
\* classification of message m1, whose sender the resolved list is of; stated
\* for classifications with a primary entity.)
C27_AttributedToResolved ==
    (call.op = "classify" /\ TruthyId(result.primary_entity_id))
        => LET w == Writes(Message1, result)
           IN  /\ \A i \in 1..Len(w.correspondence) :
                      <<w.correspondence[i].entity_type, w.correspondence[i].entity_id>>
                          \in KeysOf(call.resolved)
               /\ \A i \in 1..Len(w.tasks) :
                      <<w.tasks[i].entity_type, w.tasks[i].entity_id>>
                          \in KeysOf(call.resolved)

-----------------------------------------------------------------------------
(* Claims about a failing write, under Spec *)

\* a call made for the message run r has in hand raises in this step
WriteFails(r) ==
    /\ run[r].pc = "message"
    /\ agent_runs'[r].faults > agent_runs[r].faults

IsPrefix(s, t) == Len(s) <= Len(t) /\ SubSeq(t, 1, Len(s)) = s

\* C28 as claimed: a failing record write for a message does not abort the
\* run, which goes on to the remaining messages of its batch.
C28_WriteFailureNonFatal ==
    [][\A r \in RunIds :
          WriteFails(r) => (outcome'[r] = "none" /\ run'[r].pc = "loop")]_vars

\* C28: a failing record write for a message is not rolled back and ends the
\* run: the rows written before it stay, nothing else is written, fail_run is
\* called, the exception leaves run() and the remaining messages of the batch
\* are not processed by this run.
C28_WriteFailureAbortsRun ==
    [][\A r \in RunIds :
          WriteFails(r) =>
              /\ outcome'[r] = "raised"
              /\ run'[r].pc = "done"
              /\ agent_runs'[r].fail_calls = agent_runs[r].fail_calls + 1
              /\ agent_runs'[r].complete_calls = agent_runs[r].complete_calls
              /\ IsPrefix(correspondence, correspondence')
              /\ IsPrefix(tasks, tasks')
              /\ activity_log' = activity_log]_vars

\* the first run listed two messages; the activity write of the first one
\* failed after its correspondence and task rows were written, and the run
\* ended as failed with nothing written for the second
C28_Witness ==
    /\ listed = 2
    /\ run[2].pc = "idle"
    /\ outcome[1] = "raised"
    /\ agent_runs[1].status = "failed"
    /\ agent_runs[1].faults = 1
    /\ Len(correspondence) = 1
    /\ Len(tasks) = 1
    /\ activity_log = <<>>

\* run r has been through its iteration for the message
Passed(r, msg_id) ==
    /\ run[r].pc = "loop"
    /\ \E n \in 1..run[r].records_processed : run[r].messages[n] = msg_id

\* C29 as claimed: no action item is lost to a failed run: once a later run
\* has been through a message whose correspondence row was written by a run
\* that stopped before all its tasks were written, the message has the task
\* rows it had and the ones that were missing.
C29_MissingTasksWritten ==
    \A q, r \in RunIds :
        (q < r /\ agent_runs[q].cut # NoCut /\ Passed(r, agent_runs[q].cut.msg))
            => Cardinality(TasksOfMessage(tasks, agent_runs[q].cut.msg))
                   >= agent_runs[q].cut.had + agent_runs[q].cut.missing

\* C29: an action item can be lost to a failed run: after a run stopped with
\* a message's correspondence row written and some of its tasks not, the
\* message keeps the task rows it had then; every later run skips it.
C29_MissingTasksStayMissing ==
    \A q \in RunIds :
        agent_runs[q].cut # NoCut
            => /\ agent_runs[q].cut.missing > 0
               /\ HasRecord(agent_runs[q].cut.msg)
               /\ Cardinality(TasksOfMessage(tasks, agent_runs[q].cut.msg))
                      = agent_runs[q].cut.had

\* the first run stopped at the task of a message it had recorded, and the
\* second run has been through the same message and skipped it
C29_Witness ==
    /\ agent_runs[1].cut # NoCut
    /\ agent_runs[1].cut.missing = 1
    /\ Passed(2, agent_runs[1].cut.msg)
    /\ run[2].skipped_dupes = 1
    /\ TasksOfMessage(tasks, agent_runs[1].cut.msg) = {}

-----------------------------------------------------------------------------
(* Runs that overlap in time *)

\* the steps of runs that do not fail, started in any order and interleaved
NextOverlap ==
    \E r \in RunIds :
        \/ StartOverlapping(r)
        \/ NextMessage(r)
        \/ ProcessMessage(r)
        \/ CompleteRun(r)

SpecOverlap == Init /\ [][NextOverlap]_vars

\* the correspondence rows of a message
RecordsOf(msg_id) ==
    {i \in 1..Len(correspondence) : correspondence[i].gmail_message_id = msg_id}

\* C26 as claimed: the dedup check and the writes of a message are atomic
\* with respect to other runs: of two overlapping runs that receive the same
\* message at most one gets to classify it, and at most one correspondence
\* row is written for it.
C26_AtomicPerMessage ==
    /\ \A q, r \in RunIds :
          ( /\ run[q].pc = "message"
            /\ run[r].pc = "message"
            /\ run[q].cur.msg_id = run[r].cur.msg_id )
          => q = r
    /\ \A id \in MessageIds : Cardinality(RecordsOf(id)) <= 1

\* a run that makes its dedup check on a message that has a correspondence
\* row skips the message
C26_Skip ==
    \A r \in RunIds :
        ( /\ run[r].pc = "loop"
          /\ run[r].records_processed < Len(run[r].messages)
          /\ HasRecord(Upcoming(r))
          /\ run'[r] # run[r] )
        => /\ run'[r].pc = "loop"
           /\ run'[r].skipped_dupes = run[r].skipped_dupes + 1
           /\ UNCHANGED <<llm_calls, correspondence, tasks, activity_log>>

\* C26: the dedup check and the writes of a message are separate steps: a
\* run whose check comes after another run's correspondence write skips the
\* message, and each run writes at most one correspondence row for a message,
\* so a message has at most as many rows as runs have started.
C26_CheckThenWrite ==
    /\ [](\A id \in MessageIds :
             Cardinality(RecordsOf(id))
                 <= Cardinality({r \in RunIds : run[r].pc # "idle"}))
    /\ [][C26_Skip]_vars

\* two runs overlapped and each wrote a correspondence row for the same message
C26_Witness ==
    /\ run[1].pc = "loop"
    /\ run[2].pc = "loop"
    /\ run[1].records_updated = 1
    /\ run[2].records_updated = 1
    /\ \E id \in MessageIds : Cardinality(RecordsOf(id)) = 2

-----------------------------------------------------------------------------
(* stale-detector.py: run() *)

STALE_DAYS == 30

\* a last_contact_date: None, or a date as the number of its day; the code
\* compares "%Y-%m-%d" strings, which order as their days do
NoDate == [known |-> FALSE, day |-> 0]
Date(d) == [known |-> TRUE, day |-> d]

\* what a row of the investors table can hold besides its id and firm_name
InvestorStates ==
    { [last_contact_date |-> NoDate,       pipeline_status |-> "Prospect",
       connection_status |-> "Warm"],
      [last_contact_date |-> Date(1),      pipeline_status |-> "Prospect",
       connection_status |-> "Warm"],
      [last_contact_date |-> Date(MaxDay), pipeline_status |-> "Prospect",
       connection_status |-> "Warm"],
      [last_contact_date |-> NoDate,       pipeline_status |-> "Passed",
       connection_status |-> "Warm"],
      [last_contact_date |-> Date(1),      pipeline_status |-> "Closed",
       connection_status |-> "Warm"],
      [last_contact_date |-> Date(1),      pipeline_status |-> "Prospect",
       connection_status |-> "Stale"] }

InvestorRow(k, st) ==
    [id |-> k, firm_name |-> <<"Fund", k>>,
     last_contact_date |-> st.last_contact_date,
     pipeline_status |-> st.pipeline_status,
     connection_status |-> st.connection_status]

InvestorsTables ==
    UNION { { [k \in 1..n |-> InvestorRow(k, f[k])] : f \in [1..n -> InvestorStates] } :
            n \in 1..MaxInvestors }

\* select(...).not_.in_("pipeline_status", ["Passed", "Closed"])
NotPassedOrClosed(table) ==
    SelectSeq(table, LAMBDA inv : inv.pipeline_status \notin {"Passed", "Closed"})

\* cutoff = (datetime.now() - timedelta(days=STALE_DAYS)).strftime("%Y-%m-%d")
Cutoff(today) == today - STALE_DAYS

\* is_stale = not last_contact or last_contact < cutoff
is_stale(inv, cutoff) ==
    ~inv.last_contact_date.known \/ inv.last_contact_date.day < cutoff

\* the investor is flagged in this iteration
Flags(inv, cutoff) == is_stale(inv, cutoff) /\ inv.connection_status # "Stale"

\* update({"connection_status": "Stale"}).eq("id", inv["id"])
MarkStale(table, id) ==
    [k \in 1..Len(table) |->
        IF table[k].id = id THEN [table[k] EXCEPT !.connection_status = "Stale"]
        ELSE table[k]]

\* the follow-up task; last_contact is the date, or "unknown" when there is none
StaleTask(inv) ==
    [title |-> [text |-> "Re-engage", firm_name |-> inv.firm_name,
                last_contact |-> inv.last_contact_date],
     entity_type |-> "investors", entity_id |-> inv.id, priority |-> "medium",
     source |-> "stale-detector"]

\* the activity row; last_contact is the date, or "never" when there is none
StaleActivity(inv) ==
    [agent_name |-> "stale-detector", action_type |-> "investor_flagged_stale",
     entity_type |-> "investors", entity_id |-> inv.id,
     summary |-> [text |-> "Flagged", firm_name |-> inv.firm_name,
                  last_contact |-> inv.last_contact_date]]

\* the state before the first run of the detector, on some investors table
InitStale ==
    /\ snapshot \in {[investors |-> t] : t \in InvestorsTables}
    /\ index = EmptyIndex
    /\ call = NoCall
    /\ result = <<>>
    /\ correspondence = <<>>
    /\ tasks = <<>>
    /\ activity_log = <<>>
    /\ agent_runs = [r \in RunIds |-> NoRun]
    /\ run = [r \in RunIds |-> IdleRun]
    /\ llm_calls = 0
    /\ outcome = [r \in RunIds |-> "none"]
    /\ faults = 0
    /\ listed = 0
    /\ detector = [IdleDetector EXCEPT !.today = STALE_DAYS + 1,
                                       !.first = snapshot.investors]

\* what no step of the detector touches
detectorFrame == <<index, call, result, correspondence, run, llm_calls, listed>>

\* the days on which the next run can take place
Days == detector.today..(STALE_DAYS + MaxDay + 1)

\* the except clause of the detector: the run is marked failed and run()
\* returns; if that update raises too, the exception leaves run()
StaleExcept(r, n) ==
    \E ok \in BOOLEAN :
        /\ CanFault(IF ok THEN n ELSE n + 1)
        /\ faults' = faults + (IF ok THEN n ELSE n + 1)
        /\ agent_runs' = [agent_runs EXCEPT
                             ![r] = [Running EXCEPT
                                        !.status = IF ok THEN "failed" ELSE "running",
                                        !.faults = IF ok THEN n ELSE n + 1]]
        /\ outcome' = [outcome EXCEPT ![r] = IF ok THEN "returned" ELSE "raised"]

\* the agent_runs row is inserted and the investors are selected
StaleStart ==
    /\ detector.pc = "idle"
    /\ detector.run < MaxRuns
    /\ \E today \in Days :
          detector' = [detector EXCEPT !.pc = "loop", !.run = @ + 1, !.today = today,
                                       !.rows = NotPassedOrClosed(snapshot.investors),
                                       !.records_processed = 0,
                                       !.records_updated = 0]
    /\ agent_runs' = [agent_runs EXCEPT ![detector.run + 1] = Running]
    /\ UNCHANGED <<snapshot, tasks, activity_log, outcome, faults>>
    /\ UNCHANGED detectorFrame

\* the insert of the agent_runs row raises, before the try block
StaleInsertRaises ==
    /\ detector.pc = "idle"
    /\ detector.run < MaxRuns
    /\ CanFault(1)
    /\ faults' = faults + 1
    /\ agent_runs' = [agent_runs EXCEPT ![detector.run + 1] = [@ EXCEPT !.faults = 1]]
    /\ outcome' = [outcome EXCEPT ![detector.run + 1] = "raised"]
    /\ \E today \in Days :
          detector' = [detector EXCEPT !.run = @ + 1, !.today = today]
    /\ UNCHANGED <<snapshot, tasks, activity_log>>
    /\ UNCHANGED detectorFrame

\* the select of the investors raises
StaleSelectRaises ==
    /\ detector.pc = "idle"
    /\ detector.run < MaxRuns
    /\ \E today \in Days :
          detector' = [detector EXCEPT !.run = @ + 1, !.today = today]
    /\ StaleExcept(detector.run + 1, 1)
    /\ UNCHANGED <<snapshot, tasks, activity_log>>
    /\ UNCHANGED detectorFrame

\* for inv in investors.data: one iteration that runs to its end
StaleNext ==
    /\ detector.pc = "loop"
    /\ detector.records_processed < Len(detector.rows)
    /\ LET inv == detector.rows[detector.records_processed + 1]
       IN  IF Flags(inv, Cutoff(detector.today))
           THEN /\ snapshot' = [snapshot EXCEPT !.investors = MarkStale(@, inv.id)]
                /\ tasks' = Append(tasks, StaleTask(inv))
                /\ activity_log' = Append(activity_log, StaleActivity(inv))
                /\ detector' = [detector EXCEPT !.records_processed = @ + 1,
                                                !.records_updated = @ + 1]
           ELSE /\ detector' = [detector EXCEPT !.records_processed = @ + 1]
                /\ UNCHANGED <<snapshot, tasks, activity_log>>
    /\ UNCHANGED <<agent_runs, outcome, faults>>
    /\ UNCHANGED detectorFrame

\* the update of the investor, the insert of the task or the insert of the
\* activity row raises: what was written before it stays
StaleWriteRaises ==
    /\ detector.pc = "loop"
    /\ detector.records_processed < Len(detector.rows)
    /\ LET inv == detector.rows[detector.records_processed + 1]
       IN  /\ Flags(inv, Cutoff(detector.today))
           /\ \E at \in {"update", "task", "activity"} :
                 /\ snapshot' = IF at = "update" THEN snapshot
                                ELSE [snapshot EXCEPT !.investors = MarkStale(@, inv.id)]
                 /\ tasks' = IF at = "activity" THEN Append(tasks, StaleTask(inv))
                             ELSE tasks
                 /\ UNCHANGED activity_log
    /\ StaleExcept(detector.run, 1)
    /\ detector' = [detector EXCEPT !.pc = "idle", !.rows = <<>>]
    /\ UNCHANGED detectorFrame

\* after the loop: the run is marked completed with its counters
StaleComplete ==
    /\ detector.pc = "loop"
    /\ detector.records_processed = Len(detector.rows)
    /\ agent_runs' = [agent_runs EXCEPT
                         ![detector.run] =
                             [@ EXCEPT !.status = "completed",
                                       !.records_processed = detector.records_processed,
                                       !.records_updated = detector.records_updated]]
    /\ outcome' = [outcome EXCEPT ![detector.run] = "returned"]
    /\ detector' = [detector EXCEPT !.pc = "idle", !.rows = <<>>]
    /\ UNCHANGED <<snapshot, tasks, activity_log, faults>>
    /\ UNCHANGED detectorFrame

\* the update that marks the run completed raises
StaleCompleteRaises ==
    /\ detector.pc = "loop"
    /\ detector.records_processed = Len(detector.rows)
    /\ StaleExcept(detector.run, 1)
    /\ detector' = [detector EXCEPT !.pc = "idle", !.rows = <<>>]
    /\ UNCHANGED <<snapshot, tasks, activity_log>>
    /\ UNCHANGED detectorFrame

NextStale ==
    \/ StaleStart
    \/ StaleInsertRaises
    \/ StaleSelectRaises
    \/ StaleNext
    \/ StaleWriteRaises
    \/ StaleComplete
    \/ StaleCompleteRaises

SpecStale == InitStale /\ [][NextStale]_vars

-----------------------------------------------------------------------------
(* The claim about the stale detector, under SpecStale *)

\* the rows of a table that are about the investor
RowsAbout(table, id) == {i \in 1..Len(table) : table[i].entity_id = id}

\* C30: over any sequence of runs of the stale detector, with no other change
\* to the investors, an investor already marked Stale or in pipeline status
\* Passed or Closed is never written to; no investor gets more than one
\* re-engage task or more than one activity row; an investor the detector has
\* set to Stale has exactly one of each; and a run that completed has set
\* every stale investor it selected to Stale.
C30_FlaggedOnce ==
    \A k \in 1..Len(detector.first) :
        LET was == detector.first[k]
            now == snapshot.investors[k]
            nt  == Cardinality(RowsAbout(tasks, was.id))
            na  == Cardinality(RowsAbout(activity_log, was.id))
        IN  /\ (was.connection_status = "Stale"
                   \/ was.pipeline_status \in {"Passed", "Closed"})
                  => (now = was /\ nt = 0 /\ na = 0)
            /\ nt <= 1
            /\ na <= 1
            /\ (now.connection_status = "Stale" /\ was.connection_status # "Stale")
                  => (nt = 1 /\ na = 1)
            /\ ( /\ detector.pc = "idle"
                 /\ detector.run > 0
                 /\ agent_runs[detector.run].status = "completed"
                 /\ was.pipeline_status \notin {"Passed", "Closed"}
                 /\ is_stale(was, Cutoff(detector.today)) )
                  => now.connection_status = "Stale"

=============================================================================
